---- MODULE Spec2Model ----
(***************************************************************************)
(* Model of tests/testtool, the smoke-test driver of the p11ne enclave:    *)
(* main, cmd_openssl, the key provisioning/cleanup helpers, the generic    *)
(* differential template testtemplate_generate_check and the result        *)
(* counters.  External programs (openssl, p11ne-cli, p11ne-db, p11tool,    *)
(* the testhelpers binary, tee) are modelled by their exit status, chosen  *)
(* nondeterministically.                                                    *)
(***************************************************************************)
EXTENDS Integers, Sequences, FiniteSets, TLC

(***************************************************************************)
(* Bounds of the model.                                                    *)
(***************************************************************************)
\* at most this many cases of one run are made to fail by the environment
MaxFailedCases == 2
\* $RANDOM is sampled from 0..MaxSeed
MaxSeed == 1

(***************************************************************************)
(* Program constants (testtool:21-41).                                     *)
(***************************************************************************)
TEST_LARGE_FILE_SIZES == <<0, 32, 256, 1024, 4096, 16000>>
TEST_SMALL_FILE_SIZES == <<1, 2, 4, 8, 16, 32, 64, 128>>
TEST_ECDSA_FILE_SIZES == <<1, 2, 4, 8, 16, 32, 55>>
TEST_RSAPSS_SALT_SIZES == <<0, 1, 2, 4, 16, 48, 64>>
TEST_DIGESTS == <<"sha1", "sha224", "sha256", "sha384", "sha512">>
RSA_KEYS == <<"rsa1024", "rsa2048", "rsa4096">>
ECDSA_KEYS == <<"secp384r1", "secp521r1", "prime256v1">>
EXIT_CODE_INVALID_PARAMS == 1
EXIT_CODE_FAILED_TESTS == 2

\* an argument a test function was not given ($3, $4 unset)
NoArg == -1
NoStr == "-"

(***************************************************************************)
(* The shapes of command line main is started with.                        *)
(***************************************************************************)
ArgvShapes == {"none", "unknown", "help", "openssl", "openssl_badopt"}

(***************************************************************************)
(* cmd_openssl as the sequence of calls its loops issue (testtool:890-996).*)
(***************************************************************************)
Item(op, fn, fsize, key, slen, digest) ==
    [op |-> op, fn |-> fn, fsize |-> fsize, key |-> key, slen |-> slen, digest |-> digest]

ProvisionItem(key) == Item("provision_key", NoStr, 0, key, NoArg, NoStr)
ProvisionCertItem(key) == Item("provision_key_w_cert", NoStr, 0, key, NoArg, NoStr)
CleanupItem(key) == Item("cleanup_key", NoStr, 0, key, NoArg, NoStr)

\* variant: the salt loop encloses the digest loop
RsaPssCalls_SaltOuter(key) ==
    LET nd == Len(TEST_DIGESTS)
        ns == Len(TEST_RSAPSS_SALT_SIZES)
    IN  [i \in 1..(Len(TEST_LARGE_FILE_SIZES) * nd * ns) |->
            Item("test", "test_openssl_digestsignverify_rsapss",
                 TEST_LARGE_FILE_SIZES[((i - 1) \div (nd * ns)) + 1], key,
                 TEST_RSAPSS_SALT_SIZES[(((i - 1) \div nd) % ns) + 1],
                 TEST_DIGESTS[((i - 1) % nd) + 1])]

\* for fsize in LARGE ; for digest in DIGESTS ; for slen in SALT (897-903)
RsaPssCalls(key) ==
    LET nd == Len(TEST_DIGESTS)
        ns == Len(TEST_RSAPSS_SALT_SIZES)
    IN  [i \in 1..(Len(TEST_LARGE_FILE_SIZES) * nd * ns) |->
            Item("test", "test_openssl_digestsignverify_rsapss",
                 TEST_LARGE_FILE_SIZES[((i - 1) \div (nd * ns)) + 1], key,
                 TEST_RSAPSS_SALT_SIZES[((i - 1) % ns) + 1],
                 TEST_DIGESTS[(((i - 1) \div ns) % nd) + 1])]

\* variant: the digest loop is missing, one case per size
RsaDigestCalls_SizesOnly(key) ==
    [i \in 1..Len(TEST_LARGE_FILE_SIZES) |->
        Item("test", "test_openssl_digestsignverify_rsa",
             TEST_LARGE_FILE_SIZES[i], key, NoArg, TEST_DIGESTS[1])]

\* for fsize in LARGE ; for digest in DIGESTS (906-910)
RsaDigestCalls(key) ==
    LET nd == Len(TEST_DIGESTS)
    IN  [i \in 1..(Len(TEST_LARGE_FILE_SIZES) * nd) |->
            Item("test", "test_openssl_digestsignverify_rsa",
                 TEST_LARGE_FILE_SIZES[((i - 1) \div nd) + 1], key,
                 NoArg, TEST_DIGESTS[((i - 1) % nd) + 1])]

\* variant: every key gets the payload size of rsa1024
RawCalls_Always128(fn, key) == <<Item("test", fn, 128, key, NoArg, NoStr)>>

\* the if/elif chain on the key label (915-921, 947-953)
RawCalls(fn, key) ==
    IF key = "rsa1024" THEN <<Item("test", fn, 128, "rsa1024", NoArg, NoStr)>>
    ELSE IF key = "rsa2048" THEN <<Item("test", fn, 256, "rsa2048", NoArg, NoStr)>>
    ELSE IF key = "rsa4096" THEN <<Item("test", fn, 512, "rsa4096", NoArg, NoStr)>>
    ELSE <<>>

RsaSignSubSuite(key) ==
    <<ProvisionItem(key)>> \o RsaPssCalls(key) \o RsaDigestCalls(key)
        \o RawCalls("test_openssl_signverify_rsa_x509", key) \o <<CleanupItem(key)>>

EcdsaSubSuite(key) ==
    <<ProvisionItem(key)>>
        \o [i \in 1..Len(TEST_ECDSA_FILE_SIZES) |->
              Item("test", "test_openssl_signverify_ecdsa",
                   TEST_ECDSA_FILE_SIZES[i], key, NoArg, NoStr)]
        \o <<CleanupItem(key)>>

RsaEncSubSuite(key) ==
    <<ProvisionItem(key)>>
        \o [i \in 1..Len(TEST_SMALL_FILE_SIZES) |->
              Item("test", "test_openssl_encryptdecrypt_rsa",
                   TEST_SMALL_FILE_SIZES[i], key, NoArg, NoStr)]
        \o RawCalls("test_openssl_encryptdecrypt_rsa_x509", key)
        \o <<CleanupItem(key)>>

RECURSIVE ForEach(_, _, _)
ForEach(keys, i, kind) ==
    IF i > Len(keys) THEN <<>>
    ELSE (CASE kind = "sign" -> RsaSignSubSuite(keys[i])
            [] kind = "ecdsa" -> EcdsaSubSuite(keys[i])
            [] kind = "enc" -> RsaEncSubSuite(keys[i])
            [] kind = "x509" ->
                 <<ProvisionCertItem(keys[i]),
                   Item("x509_export", NoStr, 0, keys[i], NoArg, NoStr),
                   CleanupItem(keys[i])>>)
         \o ForEach(keys, i + 1, kind)

X509_LABELS == <<"selfsigned", "valid_chain", "noroot_chain", "invalid_chain">>

Program ==
    ForEach(RSA_KEYS, 1, "sign") \o ForEach(ECDSA_KEYS, 1, "ecdsa")
        \o ForEach(RSA_KEYS, 1, "enc")
        \o <<Item("yum_check", NoStr, 0, NoStr, NoArg, NoStr)>>
        \o ForEach(X509_LABELS, 1, "x509")
        \o <<Item("cleanup_test_env", NoStr, 0, NoStr, NoArg, NoStr)>>

NoItem == Item("none", NoStr, 0, NoStr, NoArg, NoStr)

VARIABLES
    argv,               \* shape of the command line
    pc,                 \* position in main / cmd_openssl
    ip,                 \* index in Program of the next call of cmd_openssl
    cur,                \* the test call being run, or last run
    step,               \* position in testtemplate_generate_check
    calls,              \* the calls the template made for cur, with their status
    inputfile,          \* the input file of cur: length, first byte, random bytes
    corruptDiff,        \* bit indexes where input_corrupted differs from input
    bit,                \* $bit of bitflip, NoArg when empty
    ref_out,            \* content of input.refout (input.pkcsout is content 1)
    exitcode,           \* $exitcode of the template
    uneval,             \* a checker of cur left the corrupted input unevaluated
    seedsUsed,          \* the seeds handed to testhelpers prng_file and prng_int
    result,             \* verdict of the last log_test_result
    num_tests_passed,
    num_tests_failed,
    prng_seed,
    tokenKeys,          \* keys the test token was initialised with
    initsSinceRelease,  \* init-token calls since the last release-token call
    dbFiles,            \* labels with a packed key database under KEY_DB_DIR
    summaryPrinted,
    subshellExit,       \* exit status of the { ... } side of the pipeline
    exitStatus          \* exit status of the process

vars == <<argv, pc, ip, cur, step, calls, inputfile, corruptDiff, bit, ref_out, exitcode,
          uneval, seedsUsed, result, num_tests_passed, num_tests_failed, prng_seed, tokenKeys,
          initsSinceRelease, dbFiles, summaryPrinted, subshellExit, exitStatus>>

caseVars == <<cur, step, calls, inputfile, corruptDiff, bit, ref_out, exitcode, uneval>>
helperVars == <<seedsUsed>>
ledgerVars == <<result, num_tests_passed, num_tests_failed>>
tokenVars == <<tokenKeys, initsSinceRelease, dbFiles>>

Init ==
    /\ argv \in ArgvShapes
    /\ pc = "main"
    /\ ip = 1
    /\ cur = NoItem
    /\ step = "idle"
    /\ calls = <<>>
    /\ inputfile = [len |-> -1, first |-> -1, rand |-> -1]
    /\ corruptDiff = {}
    /\ bit = NoArg
    /\ ref_out = 0
    /\ exitcode = 0
    /\ uneval = FALSE
    /\ seedsUsed = {}
    /\ result = "none"
    /\ num_tests_passed = 0
    /\ num_tests_failed = 0
    /\ prng_seed = NoArg
    /\ tokenKeys = {}
    /\ initsSinceRelease = 0
    /\ dbFiles = {}
    /\ summaryPrinted = FALSE
    /\ subshellExit = NoArg
    /\ exitStatus = NoArg

\* the environment may make one more case fail
CanFail == num_tests_failed < MaxFailedCases

(***************************************************************************)
(* die / ok_or_die inside the braces of main: only the subshell on the     *)
(* left of `| tee` exits (testtool:1002-1017, 1048-1061).                  *)
(***************************************************************************)
DieInBlock(code) ==
    /\ subshellExit' = code
    /\ pc' = "tee"

(***************************************************************************)
(* main, up to the pipeline (testtool:1032-1046).                          *)
(***************************************************************************)
Main ==
    /\ pc = "main"
    /\ \E cdOk \in BOOLEAN :
         IF argv = "none" \/ argv = "unknown" \/ ~cdOk
         THEN /\ exitStatus' = 1
              /\ pc' = "exited"
         ELSE /\ pc' = "block"
              /\ UNCHANGED exitStatus
    /\ UNCHANGED <<argv, ip, caseVars, ledgerVars, prng_seed, helperVars, tokenVars,
                   summaryPrinted, subshellExit>>

\* prng_seed=$RANDOM ; cmd_"$@" (testtool:1049-1052)
BlockStart ==
    /\ pc = "block"
    /\ \E seed \in 0..MaxSeed : prng_seed' = seed
    /\ pc' = "cmd"
    /\ UNCHANGED <<argv, ip, caseVars, helperVars, ledgerVars, tokenVars, summaryPrinted,
                   subshellExit, exitStatus>>

\* cmd_help, then the `if [ "$*" != "help" ]` that skips the summary
CmdHelp ==
    /\ pc = "cmd"
    /\ argv = "help"
    /\ subshellExit' = 0
    /\ pc' = "tee"
    /\ UNCHANGED <<argv, ip, caseVars, ledgerVars, prng_seed, helperVars, tokenVars,
                   summaryPrinted, exitStatus>>

\* the option loop of cmd_openssl (testtool:879-886)
CmdOpensslArgs ==
    /\ pc = "cmd"
    /\ argv \in {"openssl", "openssl_badopt"}
    /\ IF argv = "openssl_badopt"
       THEN DieInBlock(1)
       ELSE pc' = "prepare" /\ UNCHANGED subshellExit
    /\ UNCHANGED <<argv, ip, caseVars, ledgerVars, prng_seed, helperVars, tokenVars,
                   summaryPrinted, exitStatus>>

\* prepare_test_env (testtool:777-794)
PrepareTestEnv ==
    /\ pc = "prepare"
    /\ \E mkdirOk, startOk, stopOk, restartOk \in BOOLEAN :
         IF ~mkdirOk THEN DieInBlock(1)
         ELSE IF startOk THEN pc' = "run" /\ UNCHANGED subshellExit
         ELSE IF ~stopOk THEN DieInBlock(1)
         ELSE IF ~restartOk THEN DieInBlock(1)
         ELSE pc' = "run" /\ UNCHANGED subshellExit
    /\ UNCHANGED <<argv, ip, caseVars, ledgerVars, prng_seed, helperVars, tokenVars,
                   summaryPrinted, exitStatus>>

AtItem(op) == pc = "run" /\ ip <= Len(Program) /\ Program[ip].op = op

\* p11ne-cli init-token: the token holds the key when the call succeeds
InitToken(keys, key, ok) == IF ok THEN keys \cup {key} ELSE keys

\* p11ne-cli release-token
ReleaseToken(keys) == {}

\* provision_key (testtool:808-830) and the ok_or_die of line 892
ProvisionKey ==
    /\ AtItem("provision_key")
    /\ \E packOk, initOk \in BOOLEAN :
         IF ~packOk
         THEN /\ DieInBlock(1)
              /\ UNCHANGED <<ip, tokenVars>>
         ELSE /\ dbFiles' = dbFiles \cup {Program[ip].key}
              /\ tokenKeys' = InitToken(tokenKeys, Program[ip].key, initOk)
              /\ initsSinceRelease' = initsSinceRelease + 1
              /\ ip' = ip + 1
              /\ UNCHANGED <<pc, subshellExit>>
    /\ UNCHANGED <<argv, caseVars, ledgerVars, prng_seed, helperVars, summaryPrinted,
                   exitStatus>>

\* provision_key_w_cert (testtool:833-856)
ProvisionKeyWCert ==
    /\ AtItem("provision_key_w_cert")
    /\ \E packOk, initOk \in BOOLEAN :
         IF ~packOk
         THEN /\ DieInBlock(1)
              /\ UNCHANGED <<ip, tokenVars>>
         ELSE /\ dbFiles' = dbFiles \cup {Program[ip].key}
              /\ tokenKeys' = InitToken(tokenKeys, Program[ip].key, initOk)
              /\ initsSinceRelease' = initsSinceRelease + 1
              /\ ip' = ip + 1
              /\ UNCHANGED <<pc, subshellExit>>
    /\ UNCHANGED <<argv, caseVars, ledgerVars, prng_seed, helperVars, summaryPrinted,
                   exitStatus>>

\* variant: cleanup_key also removes the key's database
CleanupKeyEffect_RemovesDb(keys, files, key) == <<ReleaseToken(keys), files \ {key}>>

\* what cleanup_key leaves of the token and of the key databases
CleanupKeyEffect(keys, files, key) == <<ReleaseToken(keys), files>>

\* variant: cleanup_key returns without calling release-token
CleanupKey_NoRelease ==
    /\ AtItem("cleanup_key")
    /\ ip' = ip + 1
    /\ UNCHANGED <<argv, pc, caseVars, ledgerVars, prng_seed, helperVars, tokenVars,
                   summaryPrinted, subshellExit, exitStatus>>

\* variant: the token is released only when no case has failed
CleanupKey_OnlyOnSuccess ==
    /\ AtItem("cleanup_key")
    /\ IF num_tests_failed = 0
       THEN tokenKeys' = ReleaseToken(tokenKeys) /\ initsSinceRelease' = 0
       ELSE UNCHANGED <<tokenKeys, initsSinceRelease>>
    /\ ip' = ip + 1
    /\ UNCHANGED <<argv, pc, caseVars, ledgerVars, prng_seed, helperVars, dbFiles,
                   summaryPrinted, subshellExit, exitStatus>>

\* cleanup_key (testtool:859-873)
CleanupKey ==
    /\ AtItem("cleanup_key")
    /\ tokenKeys' = CleanupKeyEffect(tokenKeys, dbFiles, Program[ip].key)[1]
    /\ dbFiles' = CleanupKeyEffect(tokenKeys, dbFiles, Program[ip].key)[2]
    /\ initsSinceRelease' = 0
    /\ ip' = ip + 1
    /\ UNCHANGED <<argv, pc, caseVars, ledgerVars, prng_seed, helperVars, summaryPrinted,
                   subshellExit, exitStatus>>

\* `if yum list installed gnutls-utils` and create_test_certs (testtool:960-964)
YumCheck ==
    /\ AtItem("yum_check")
    /\ \E installed \in BOOLEAN :
         ip' = IF installed THEN ip + 1 ELSE Len(Program)
    /\ UNCHANGED <<argv, pc, caseVars, ledgerVars, prng_seed, helperVars, tokenVars,
                   summaryPrinted, subshellExit, exitStatus>>

\* cleanup_test_env (testtool:797-805)
CleanupTestEnv ==
    /\ AtItem("cleanup_test_env")
    /\ dbFiles' = {}
    /\ pc' = "summary"
    /\ ip' = ip + 1
    /\ UNCHANGED <<argv, caseVars, ledgerVars, prng_seed, helperVars, tokenKeys,
                   initsSinceRelease, summaryPrinted, subshellExit, exitStatus>>

\* the status the braces of main end with after the summary (testtool:1055-1060)
BlockStatus(failed) == IF failed # 0 THEN EXIT_CODE_FAILED_TESTS ELSE 0

\* test_results_summary and the exit of the block (testtool:215-217, 1055-1060)
Summary ==
    /\ pc = "summary"
    /\ summaryPrinted' = TRUE
    /\ subshellExit' = BlockStatus(num_tests_failed)
    /\ pc' = "tee"
    /\ UNCHANGED <<argv, ip, caseVars, ledgerVars, prng_seed, helperVars, tokenVars,
                   exitStatus>>

\* the status of the pipeline `{ ... } | tee $OVERALL_LOG_FILE` is tee's
PipelineStatus(blockStatus, teeStatus) == teeStatus

\* `| tee $OVERALL_LOG_FILE` ends, main returns, the script ends (1061-1064)
Tee ==
    /\ pc = "tee"
    /\ \E teeStatus \in {0, 1} :
         exitStatus' = PipelineStatus(subshellExit, teeStatus)
    /\ pc' = "exited"
    /\ UNCHANGED <<argv, ip, caseVars, ledgerVars, prng_seed, helperVars, tokenVars,
                   summaryPrinted, subshellExit>>

MainFlow ==
    \/ Main \/ BlockStart \/ CmdHelp \/ CmdOpensslArgs \/ PrepareTestEnv
    \/ ProvisionKey \/ ProvisionKeyWCert \/ CleanupKey \/ YumCheck
    \/ CleanupTestEnv \/ Summary \/ Tee

(***************************************************************************)
(* The function pointers each test function hands to the template          *)
(* (testtool:659-774).                                                      *)
(***************************************************************************)
Fct(gp, gr, cp, cr, cmp, prng) ==
    [generator_pkcs |-> gp, generator_ref |-> gr, checker_pkcs |-> cp,
     checker_ref |-> cr, custom_check |-> cmp, prng_inputfile |-> prng]

FctOf(fn) ==
    CASE fn = "test_openssl_digestsignverify_rsa" ->
           Fct("openssl_pkcs_digestsign_rsa", "openssl_ref_digestsign_rsa",
               "openssl_pkcs_digestverify_rsa", "openssl_ref_digestverify_rsa",
               "check_outfiles_diff", "create_test_random_file")
      [] fn = "test_openssl_signverify_rsa_x509" ->
           Fct("openssl_pkcs_sign_rsa_x509", "openssl_ref_sign_rsa_x509",
               "openssl_pkcs_verify_rsa_x509", "openssl_ref_verify_rsa_x509",
               "check_outfiles_diff", "create_test_random_file_rsax509")
      [] fn = "test_openssl_digestsignverify_rsapss" ->
           Fct("openssl_pkcs_digestsign_rsapss", "openssl_ref_digestsign_rsapss",
               "openssl_pkcs_digestverify_rsapss", "openssl_ref_digestverify_rsapss",
               "check_outfiles_signverify_rsapss", "create_test_random_file")
      [] fn = "test_openssl_signverify_ecdsa" ->
           Fct("openssl_pkcs_sign_ecdsa", "openssl_ref_sign_ecdsa",
               "openssl_pkcs_verify_ecdsa", "openssl_ref_verify_ecdsa",
               "true", "create_test_random_file")
      [] fn = "test_openssl_encryptdecrypt_rsa" ->
           Fct("openssl_pkcs_encrypt_rsa", "openssl_ref_encrypt_rsa",
               "openssl_pkcs_decrypt_rsa", "openssl_ref_decrypt_rsa",
               "true", "create_test_random_file")
      [] fn = "test_openssl_encryptdecrypt_rsa_x509" ->
           Fct("openssl_pkcs_encrypt_rsax509", "openssl_ref_encrypt_rsax509",
               "openssl_pkcs_decrypt_rsax509", "openssl_ref_decrypt_rsax509",
               "check_outfiles_diff", "create_test_random_file_rsax509")

(***************************************************************************)
(* The files a case writes (testtool:93-99, 573-604 and the helpers).      *)
(***************************************************************************)
\* $test_family without the key label (testtool:666, 681, 717, 732, 753, 769)
FamilyOf(fn) ==
    CASE fn = "test_openssl_digestsignverify_rsa" -> "signverify/rsa_pkcs"
      [] fn = "test_openssl_signverify_rsa_x509" -> "signverify/rsa_x509"
      [] fn = "test_openssl_digestsignverify_rsapss" -> "signverify/rsapss"
      [] fn = "test_openssl_signverify_ecdsa" -> "signverify/ecdsa"
      [] fn = "test_openssl_encryptdecrypt_rsa" -> "encryptdecrypt/rsa_pkcs"
      [] fn = "test_openssl_encryptdecrypt_rsa_x509" -> "encryptdecrypt/rsa_x509"

\* generate_test_name: basename, key label, size and the test arguments
generate_test_name(item) == <<item.fn, item.key, item.fsize, item.slen, item.digest>>

\* create_test_dir: $RESULT_DIR/$test_family/$testname
create_test_dir(item) ==
    <<"tests/results", FamilyOf(item.fn), item.key, generate_test_name(item)>>

\* the working directory of the script, and a directory made by mktemp -d
Cwd == <<".">>
MktempDir == <<"mktemp -d">>

\* the expansion of a variable that is not set
Unset == ""

Path(dir, name) == [dir |-> dir, name |-> name]

\* $inputpath, $corruptedinputpath, $pkcs_out_path, $ref_out_path, $logfile
CasePath(item, file) ==
    Path(create_test_dir(item),
         CASE file = "input" -> <<"input">>
           [] file = "input_corrupted" -> <<"input_corrupted">>
           [] file = "pkcsout" -> <<"input.pkcsout">>
           [] file = "refout" -> <<"input.refout">>
           [] file = "logs" -> <<"logs">>)

\* the file a checker helper writes, given its third argument (testtool:221-569);
\* the raw decrypt helpers use $sign, which they do not set
OutputOf(fct, third) ==
    CASE fct \in {"openssl_ref_verify_rsa_x509"} ->
           {Path(third.dir, third.name \o <<".refverify">>)}
      [] fct \in {"openssl_pkcs_verify_rsa_x509"} ->
           {Path(third.dir, third.name \o <<".pkcsverify">>)}
      [] fct \in {"openssl_pkcs_decrypt_rsa"} ->
           {Path(third.dir, third.name \o <<".pkcsdecrypted">>)}
      [] fct \in {"openssl_ref_decrypt_rsa"} ->
           {Path(third.dir, third.name \o <<".refdecrypted">>)}
      [] fct \in {"openssl_pkcs_decrypt_rsax509"} ->
           {Path(Cwd, <<Unset, ".pkcsdecrypted">>)}
      [] fct \in {"openssl_ref_decrypt_rsax509"} ->
           {Path(Cwd, <<Unset, ".refdecrypted">>)}
      [] OTHER -> {}

\* the files one call of the template writes (testtool:606-643)
Writes(c, item) ==
    CASE c.role = "prng_inputfile" ->
           IF c.fct = "create_test_random_file_rsax509"
           THEN {Path(MktempDir, <<"input">>), CasePath(item, "input")}
           ELSE {CasePath(item, "input")}
      [] c.role = "bitflip" -> {CasePath(item, "input_corrupted")}
      [] c.role \in {"generator_pkcs", "generator_ref"} -> {CasePath(item, c.artifact)}
      [] c.role \in {"checker_pkcs", "checker_ref"} ->
           OutputOf(c.fct, CasePath(item, c.artifact))
      [] OTHER -> {}

\* the files the template has written for item: the case log and those of its calls
FilesWritten(log, item) ==
    {CasePath(item, "logs")} \cup UNION {Writes(log[i], item) : i \in 1..Len(log)}

\* variant: the RSA-PSS skip is missing
Skips_NoPssSkip(item) ==
    item.fn = "test_openssl_encryptdecrypt_rsa" /\ item.key = "rsa1024" /\ item.fsize = 128

\* variant: the encrypt/decrypt skip tests 64 in place of 128
Skips_EncSkipAt64(item) ==
    CASE item.fn = "test_openssl_digestsignverify_rsapss" ->
           item.key = "rsa1024" /\ item.slen = 64
      [] item.fn = "test_openssl_encryptdecrypt_rsa" ->
           item.key = "rsa1024" /\ item.fsize = 64
      [] OTHER -> FALSE

\* the early `return` of a test function (testtool:710-713, 746-749)
Skips(item) ==
    CASE item.fn = "test_openssl_digestsignverify_rsapss" ->
           item.key = "rsa1024" /\ item.slen = 64
      [] item.fn = "test_openssl_encryptdecrypt_rsa" ->
           item.key = "rsa1024" /\ item.fsize = 128
      [] OTHER -> FALSE

\* diff of two files by content: 0 when equal, 1 when they differ
Diff(a, b) == IF a = b THEN 0 ELSE 1

\* variant: check_outfiles_diff compares Subject's file with itself
CustomCheck_DiffSelf(name, pkcs_out, refOut, slen) ==
    CASE name = "check_outfiles_diff" -> Diff(pkcs_out, pkcs_out)
      [] name = "check_outfiles_signverify_rsapss" ->
           IF slen = 0 THEN Diff(pkcs_out, pkcs_out) ELSE 0
      [] name = "true" -> 0

\* variant: the RSA-PSS comparator compares the two files for every salt length
CustomCheck_PssAlwaysCompared(name, pkcs_out, refOut, slen) ==
    CASE name = "check_outfiles_diff" -> Diff(pkcs_out, refOut)
      [] name = "check_outfiles_signverify_rsapss" -> Diff(pkcs_out, refOut)
      [] name = "true" -> 0

\* variant: the cases that pass `true` as comparator compare the two files
CustomCheck_TrueCompares(name, pkcs_out, refOut, slen) ==
    CASE name = "check_outfiles_diff" -> Diff(pkcs_out, refOut)
      [] name = "check_outfiles_signverify_rsapss" ->
           IF slen = 0 THEN Diff(pkcs_out, pkcs_out) ELSE 0
      [] name = "true" -> Diff(pkcs_out, refOut)

\* variant: with salt length 0 the RSA-PSS comparator compares the two files
CustomCheck_PssSaltZeroCompared(name, pkcs_out, refOut, slen) ==
    CASE name = "check_outfiles_diff" -> Diff(pkcs_out, refOut)
      [] name = "check_outfiles_signverify_rsapss" ->
           IF slen = 0 THEN Diff(pkcs_out, refOut) ELSE 0
      [] name = "true" -> 0

\* check_outfiles_diff, check_outfiles_signverify_rsapss, true (650-657, 689-702)
CustomCheck(name, pkcs_out, refOut, slen) ==
    CASE name = "check_outfiles_diff" -> Diff(pkcs_out, refOut)
      [] name = "check_outfiles_signverify_rsapss" ->
           IF slen = 0 THEN Diff(pkcs_out, pkcs_out) ELSE 0
      [] name = "true" -> 0

\* content of input.pkcsout once Subject's generator has written it
PkcsOut == 1

\* testhelpers prng_int seed start end: an index in [start, end) fixed by the seed
PrngInt(seed, start, end) ==
    IF end > start THEN start + (((end - start - 1) * seed) % (end - start)) ELSE start

\* testhelpers bitflip file bit: flips the bit when it lies inside the file
HelperBitflip(size, diff, b, ok) ==
    IF ~ok THEN [rc |-> 1, diff |-> diff]
    ELSE IF b \in 0..(8 * size - 1)
         THEN [rc |-> 0, diff |-> (diff \ {b}) \cup ({b} \ diff)]
         ELSE [rc |-> 0, diff |-> diff]

\* a file that was not written
NoFile == [len |-> NoArg, first |-> NoArg, rand |-> NoArg]

\* testhelpers prng_file file size seed: size pseudo-random bytes fixed by the seed
PrngFile(size, seed) ==
    [len |-> size, first |-> IF size > 0 THEN (195 * seed) % 256 ELSE NoArg, rand |-> size]

\* create_test_random_file (testtool:61-67)
create_test_random_file(size, seed, ok) ==
    IF ok THEN [rc |-> 0, file |-> PrngFile(size, seed)] ELSE [rc |-> 1, file |-> NoFile]

\* variant: the random part is not shortened by the byte that is prepended
create_test_random_file_rsax509_FullSize(size, seed, ok) ==
    IF ok
    THEN [rc |-> 0, file |-> [len |-> 1 + PrngFile(size, seed).len, first |-> 65,
                              rand |-> PrngFile(size, seed).len]]
    ELSE [rc |-> 1, file |-> NoFile]

\* create_test_random_file_rsax509 (testtool:69-79): 'A' (0x41), then size-1 bytes
create_test_random_file_rsax509(size, seed, ok) ==
    IF ok
    THEN [rc |-> 0, file |-> [len |-> 1 + PrngFile(size - 1, seed).len, first |-> 65,
                              rand |-> PrngFile(size - 1, seed).len]]
    ELSE [rc |-> 1, file |-> NoFile]

\* $fct_prng_inputfile, by the name the test function passed (testtool:589, 610)
InputGenerator(name, size, seed, ok) ==
    CASE name = "create_test_random_file" -> create_test_random_file(size, seed, ok)
      [] name = "create_test_random_file_rsax509" ->
           create_test_random_file_rsax509(size, seed, ok)

\* variant: the range ends one bit after the file
BitRange_OffByOne(filesize) == <<0, 8 * filesize + 1>>

\* the bit range the template hands to bitflip (testtool:614)
BitRange(filesize) == <<0, 8 * filesize>>

\* bitflip (testtool:81-91); the status of prng_int is masked by `local`
Bitflip(size, seed, start, end, cpOk, prngOk, helperOk) ==
    IF ~cpOk THEN [rc |-> 1, bit |-> NoArg, diff |-> {}]
    ELSE LET b == IF prngOk THEN PrngInt(seed, start, end) ELSE NoArg
             h == HelperBitflip(size, {}, b, helperOk)
         IN  [rc |-> h.rc, bit |-> b, diff |-> h.diff]

\* variant: -ge in place of -gt
HasPayload_Ge(filesize) == filesize >= 0

\* `[ "$filesize" -gt 0 ]` (testtool:612, 633)
HasPayload(filesize) == filesize > 0

Call(role, fct, input, artifact, rc) ==
    [role |-> role, fct |-> fct, input |-> input, artifact |-> artifact, rc |-> rc]

AtStep(s) == pc = "case" /\ step = s

\* a failing command ends the && list: the braces return its status
FailCase(rc) ==
    /\ exitcode' = rc
    /\ step' = "log"

\* variant: every case draws a seed of its own
CallTest_Reseeds ==
    /\ AtItem("test")
    /\ cur' = Program[ip]
    /\ calls' = <<>>
    /\ inputfile' = NoFile
    /\ corruptDiff' = {}
    /\ bit' = NoArg
    /\ ref_out' = 0
    /\ exitcode' = 0
    /\ uneval' = FALSE
    /\ \E seed \in 0..MaxSeed : prng_seed' = seed
    /\ IF Skips(Program[ip])
       THEN step' = "idle" /\ ip' = ip + 1 /\ UNCHANGED pc
       ELSE step' = "input" /\ pc' = "case" /\ UNCHANGED ip
    /\ UNCHANGED <<argv, ledgerVars, helperVars, tokenVars, summaryPrinted,
                   subshellExit, exitStatus>>

\* test_openssl_*: skip rule, then entry of testtemplate_generate_check (578-604)
CallTest ==
    /\ AtItem("test")
    /\ cur' = Program[ip]
    /\ calls' = <<>>
    /\ inputfile' = NoFile
    /\ corruptDiff' = {}
    /\ bit' = NoArg
    /\ ref_out' = 0
    /\ exitcode' = 0
    /\ uneval' = FALSE
    /\ IF Skips(Program[ip])
       THEN step' = "idle" /\ ip' = ip + 1 /\ UNCHANGED pc
       ELSE step' = "input" /\ pc' = "case" /\ UNCHANGED ip
    /\ UNCHANGED <<argv, ledgerVars, prng_seed, helperVars, tokenVars, summaryPrinted,
                   subshellExit, exitStatus>>

\* $fct_prng_inputfile "$inputpath" "$filesize" (testtool:609-610)
GenerateInput ==
    /\ AtStep("input")
    /\ \E ok \in BOOLEAN :
         LET g == InputGenerator(FctOf(cur.fn).prng_inputfile, cur.fsize, prng_seed, ok)
         IN  /\ g.rc = 0 \/ CanFail
             /\ calls' = Append(calls, Call("prng_inputfile", FctOf(cur.fn).prng_inputfile,
                                            "input", NoStr, g.rc))
             /\ inputfile' = g.file
             /\ seedsUsed' = seedsUsed \cup {prng_seed}
             /\ IF g.rc = 0
                THEN /\ step' = IF HasPayload(cur.fsize) THEN "corrupt" ELSE "generator_pkcs"
                     /\ UNCHANGED exitcode
                ELSE FailCase(g.rc)
    /\ UNCHANGED <<argv, pc, ip, cur, corruptDiff, bit, ref_out, uneval,
                   ledgerVars, prng_seed, tokenVars, summaryPrinted, subshellExit,
                   exitStatus>>

\* bitflip ... && (! diff "$inputpath" "$corruptedinputpath") (testtool:612-616)
Corrupt ==
    /\ AtStep("corrupt")
    /\ \E cpOk, prngOk, helperOk \in BOOLEAN :
         LET r == Bitflip(cur.fsize, prng_seed, BitRange(cur.fsize)[1],
                          BitRange(cur.fsize)[2], cpOk, prngOk, helperOk)
             d == Diff({}, r.diff)
             flipCall == Call("bitflip", "bitflip", "input", "input_corrupted", r.rc)
             diffCall == Call("diff", "diff", "input", "input_corrupted", d)
         IN  /\ (r.rc = 0 /\ d # 0) \/ CanFail
             /\ bit' = r.bit
             /\ corruptDiff' = r.diff
             /\ seedsUsed' = IF cpOk THEN seedsUsed \cup {prng_seed} ELSE seedsUsed
             /\ IF r.rc # 0
                THEN calls' = Append(calls, flipCall) /\ FailCase(r.rc)
                ELSE /\ calls' = calls \o <<flipCall, diffCall>>
                     /\ IF d # 0
                        THEN step' = "generator_pkcs" /\ UNCHANGED exitcode
                        ELSE FailCase(1)
    /\ UNCHANGED <<argv, pc, ip, cur, inputfile, ref_out, uneval, ledgerVars,
                   prng_seed, tokenVars, summaryPrinted, subshellExit, exitStatus>>

\* variant: `;` in place of `&&` after Subject's generator
GeneratorPkcs_NoShortCircuit ==
    /\ AtStep("generator_pkcs")
    /\ \E rc \in {0, 1} :
         /\ rc = 0 \/ CanFail
         /\ calls' = Append(calls, Call("generator_pkcs", FctOf(cur.fn).generator_pkcs,
                                        "input", "pkcsout", rc))
         /\ step' = "generator_ref"
    /\ UNCHANGED <<argv, pc, ip, cur, inputfile, corruptDiff, bit, ref_out, exitcode,
                   ledgerVars, prng_seed, helperVars, uneval, tokenVars, summaryPrinted,
                   subshellExit, exitStatus>>

\* $fct_generator_pkcs "$keylabel" "$inputpath" "$pkcs_out_path" (testtool:618-619)
GeneratorPkcs ==
    /\ AtStep("generator_pkcs")
    /\ \E rc \in {0, 1} :
         /\ rc = 0 \/ CanFail
         /\ calls' = Append(calls, Call("generator_pkcs", FctOf(cur.fn).generator_pkcs,
                                        "input", "pkcsout", rc))
         /\ IF rc = 0 THEN step' = "generator_ref" /\ UNCHANGED exitcode
            ELSE FailCase(rc)
    /\ UNCHANGED <<argv, pc, ip, cur, inputfile, corruptDiff, bit, ref_out, ledgerVars,
                   prng_seed, helperVars, uneval, tokenVars, summaryPrinted, subshellExit,
                   exitStatus>>

\* $fct_generator_ref "$keylabel" "$inputpath" "$ref_out_path" (testtool:621-622);
\* Reference's artifact has Subject's content (1) or another one (2)
GeneratorRef ==
    /\ AtStep("generator_ref")
    /\ \E rc \in {0, 1}, content \in {1, 2} :
         /\ \/ CanFail
            \/ /\ rc = 0
               /\ CustomCheck(FctOf(cur.fn).custom_check, PkcsOut, content, cur.slen) = 0
         /\ calls' = Append(calls, Call("generator_ref", FctOf(cur.fn).generator_ref,
                                        "input", "refout", rc))
         /\ IF rc = 0
            THEN ref_out' = content /\ step' = "custom_check" /\ UNCHANGED exitcode
            ELSE UNCHANGED ref_out /\ FailCase(rc)
    /\ UNCHANGED <<argv, pc, ip, cur, inputfile, corruptDiff, bit, ledgerVars, prng_seed,
                   helperVars, uneval, tokenVars, summaryPrinted, subshellExit, exitStatus>>

\* $fct_custom_check_out_files "$pkcs_out_path" "$ref_out_path" (testtool:624-625)
CustomCheckStep ==
    /\ AtStep("custom_check")
    /\ LET rc == CustomCheck(FctOf(cur.fn).custom_check, PkcsOut, ref_out, cur.slen)
       IN  /\ calls' = Append(calls, Call("custom_check", FctOf(cur.fn).custom_check,
                                          "pkcsout", "refout", rc))
           /\ IF rc = 0 THEN step' = "checker_ref" /\ UNCHANGED exitcode
              ELSE FailCase(rc)
    /\ UNCHANGED <<argv, pc, ip, cur, inputfile, corruptDiff, bit, ref_out, ledgerVars,
                   prng_seed, helperVars, uneval, tokenVars, summaryPrinted, subshellExit,
                   exitStatus>>

\* variant: Reference's checker is handed Reference's own artifact
CheckerRef_RefArtifact ==
    /\ AtStep("checker_ref")
    /\ \E rc \in {0, 1} :
         /\ rc = 0 \/ CanFail
         /\ calls' = Append(calls, Call("checker_ref", FctOf(cur.fn).checker_ref,
                                        "input", "refout", rc))
         /\ IF rc = 0 THEN step' = "checker_pkcs" /\ UNCHANGED exitcode
            ELSE FailCase(rc)
    /\ UNCHANGED <<argv, pc, ip, cur, inputfile, corruptDiff, bit, ref_out, ledgerVars,
                   prng_seed, helperVars, uneval, tokenVars, summaryPrinted, subshellExit,
                   exitStatus>>

\* $fct_checker_ref "$keylabel" "$inputpath" "$pkcs_out_path" (testtool:627-628)
CheckerRef ==
    /\ AtStep("checker_ref")
    /\ \E rc \in {0, 1} :
         /\ rc = 0 \/ CanFail
         /\ calls' = Append(calls, Call("checker_ref", FctOf(cur.fn).checker_ref,
                                        "input", "pkcsout", rc))
         /\ IF rc = 0 THEN step' = "checker_pkcs" /\ UNCHANGED exitcode
            ELSE FailCase(rc)
    /\ UNCHANGED <<argv, pc, ip, cur, inputfile, corruptDiff, bit, ref_out, ledgerVars,
                   prng_seed, helperVars, uneval, tokenVars, summaryPrinted, subshellExit,
                   exitStatus>>

\* variant: Subject's checker is handed Subject's own artifact
CheckerPkcs_OwnArtifact ==
    /\ AtStep("checker_pkcs")
    /\ \E rc \in {0, 1} :
         /\ rc = 0 \/ CanFail
         /\ calls' = Append(calls, Call("checker_pkcs", FctOf(cur.fn).checker_pkcs,
                                        "input", "pkcsout", rc))
         /\ IF rc # 0 THEN FailCase(rc)
            ELSE IF HasPayload(cur.fsize) THEN step' = "neg_checker_ref" /\ UNCHANGED exitcode
            ELSE step' = "log" /\ exitcode' = 0
    /\ UNCHANGED <<argv, pc, ip, cur, inputfile, corruptDiff, bit, ref_out, ledgerVars,
                   prng_seed, helperVars, uneval, tokenVars, summaryPrinted, subshellExit,
                   exitStatus>>

\* $fct_checker_pkcs "$keylabel" "$inputpath" "$ref_out_path" (testtool:630-633)
CheckerPkcs ==
    /\ AtStep("checker_pkcs")
    /\ \E rc \in {0, 1} :
         /\ rc = 0 \/ CanFail
         /\ calls' = Append(calls, Call("checker_pkcs", FctOf(cur.fn).checker_pkcs,
                                        "input", "refout", rc))
         /\ IF rc # 0 THEN FailCase(rc)
            ELSE IF HasPayload(cur.fsize) THEN step' = "neg_checker_ref" /\ UNCHANGED exitcode
            ELSE step' = "log" /\ exitcode' = 0
    /\ UNCHANGED <<argv, pc, ip, cur, inputfile, corruptDiff, bit, ref_out, ledgerVars,
                   prng_seed, helperVars, uneval, tokenVars, summaryPrinted, subshellExit,
                   exitStatus>>

\* variant: the `!` is dropped
Not_Dropped(rc) == rc

\* variant: an accepted corrupted input gets a status of its own
Not_DistinctStatus(rc) == IF rc = 0 THEN 3 ELSE 0

\* status of `(! cmd)`
Not(rc) == IF rc = 0 THEN 1 ELSE 0

\* a checker helper, `openssl ... && diff "$input" "$out" ; return $?`: the status
\* is non-zero when the command could not run as well as when it rejects
Checker(opOk, accepts) ==
    [rc |-> IF opOk /\ accepts THEN 0 ELSE 1, evaluated |-> opOk]

\* variant: a checker that could not run fails the case
NegCheckerRef_ErrorFails ==
    /\ AtStep("neg_checker_ref")
    /\ \E opOk, accepts \in BOOLEAN :
         LET c == Checker(opOk, accepts)
             status == IF c.evaluated THEN Not(c.rc) ELSE 1
         IN  /\ status = 0 \/ CanFail
             /\ calls' = Append(calls, Call("checker_ref", FctOf(cur.fn).checker_ref,
                                            "input_corrupted", "pkcsout", c.rc))
             /\ uneval' = (uneval \/ ~c.evaluated)
             /\ IF status = 0 THEN step' = "neg_checker_pkcs" /\ UNCHANGED exitcode
                ELSE FailCase(status)
    /\ UNCHANGED <<argv, pc, ip, cur, inputfile, corruptDiff, bit, ref_out, ledgerVars,
                   prng_seed, helperVars, tokenVars, summaryPrinted, subshellExit, exitStatus>>

\* (! $fct_checker_ref "$keylabel" "$corruptedinputpath" "$pkcs_out_path") (634-636)
NegCheckerRef ==
    /\ AtStep("neg_checker_ref")
    /\ \E opOk, accepts \in BOOLEAN :
         LET c == Checker(opOk, accepts)
         IN  /\ Not(c.rc) = 0 \/ CanFail
             /\ calls' = Append(calls, Call("checker_ref", FctOf(cur.fn).checker_ref,
                                            "input_corrupted", "pkcsout", c.rc))
             /\ uneval' = (uneval \/ ~c.evaluated)
             /\ IF Not(c.rc) = 0 THEN step' = "neg_checker_pkcs" /\ UNCHANGED exitcode
                ELSE FailCase(Not(c.rc))
    /\ UNCHANGED <<argv, pc, ip, cur, inputfile, corruptDiff, bit, ref_out, ledgerVars,
                   prng_seed, helperVars, tokenVars, summaryPrinted, subshellExit, exitStatus>>

\* (! $fct_checker_pkcs "$keylabel" "$corruptedinputpath" "$ref_out_path") (638-643)
NegCheckerPkcs ==
    /\ AtStep("neg_checker_pkcs")
    /\ \E opOk, accepts \in BOOLEAN :
         LET c == Checker(opOk, accepts)
         IN  /\ Not(c.rc) = 0 \/ CanFail
             /\ calls' = Append(calls, Call("checker_pkcs", FctOf(cur.fn).checker_pkcs,
                                            "input_corrupted", "refout", c.rc))
             /\ uneval' = (uneval \/ ~c.evaluated)
             /\ exitcode' = Not(c.rc)
             /\ step' = "log"
    /\ UNCHANGED <<argv, pc, ip, cur, inputfile, corruptDiff, bit, ref_out, ledgerVars,
                   prng_seed, helperVars, tokenVars, summaryPrinted, subshellExit, exitStatus>>

\* variant: a failed case is counted in both counters
log_test_result_BothOnFail(passed, failed, test_exitcode) ==
    IF test_exitcode = 0 THEN <<passed + 1, failed, "PASSED">>
    ELSE <<passed + 1, failed + 1, "FAILED">>

\* log_test_result (testtool:190-213): <<passed, failed, result>>
log_test_result(passed, failed, test_exitcode) ==
    IF test_exitcode = 0 THEN <<passed + 1, failed, "PASSED">>
    ELSE <<passed, failed + 1, "FAILED">>

\* variant: a failed case leaves the loops and goes to the end of cmd_openssl
AfterVerdict_Halt(i, code) ==
    IF code = 0 THEN [pc |-> "run", ip |-> i + 1]
    ELSE [pc |-> "run", ip |-> Len(Program)]

\* where the template goes after its verdict: back to the caller's loop
AfterVerdict(i, code) == [pc |-> "run", ip |-> i + 1]

\* exitcode=$? ; log_test_result "$testname" "$exitcode" (testtool:644-648)
LogTestResult ==
    /\ AtStep("log")
    /\ LET r == log_test_result(num_tests_passed, num_tests_failed, exitcode)
       IN  /\ num_tests_passed' = r[1]
           /\ num_tests_failed' = r[2]
           /\ result' = r[3]
    /\ step' = "done"
    /\ pc' = AfterVerdict(ip, exitcode).pc
    /\ ip' = AfterVerdict(ip, exitcode).ip
    /\ UNCHANGED <<argv, cur, calls, inputfile, corruptDiff, bit, ref_out, exitcode,
                   prng_seed, helperVars, uneval, tokenVars, summaryPrinted, subshellExit,
                   exitStatus>>

\* variant: the invalid-chain test hands over the status of the export
ExportVerdict_ExportStatus(key, rc) == rc

\* the status handed to log_test_result by an export test (testtool:968-992)
ExportVerdict(key, rc) ==
    IF key = "invalid_chain" THEN (IF rc # 0 THEN 0 ELSE 1) ELSE rc

\* p11tool --export ... ; log_test_result (testtool:966-992)
X509Export ==
    /\ AtItem("x509_export")
    /\ \E rc \in {0, 1} :
         LET code == ExportVerdict(Program[ip].key, rc)
             r == log_test_result(num_tests_passed, num_tests_failed, code)
         IN  /\ code = 0 \/ CanFail
             /\ num_tests_passed' = r[1]
             /\ num_tests_failed' = r[2]
             /\ result' = r[3]
             /\ exitcode' = code
             /\ calls' = <<Call("export", "p11tool", NoStr, NoStr, rc)>>
    /\ cur' = Program[ip]
    /\ step' = "done"
    /\ ip' = ip + 1
    /\ UNCHANGED <<argv, pc, inputfile, corruptDiff, bit, ref_out, prng_seed, helperVars,
                   uneval, tokenVars, summaryPrinted, subshellExit, exitStatus>>

Template ==
    \/ CallTest \/ GenerateInput \/ Corrupt \/ GeneratorPkcs \/ GeneratorRef
    \/ CustomCheckStep \/ CheckerRef \/ CheckerPkcs \/ NegCheckerRef
    \/ NegCheckerPkcs \/ LogTestResult \/ X509Export

Next == MainFlow \/ Template

Spec == Init /\ [][Next]_vars

\* every external call returns, so the script keeps running until it exits
FairSpec == Spec /\ WF_vars(Next)

(***************************************************************************)
(* Properties.                                                             *)
(***************************************************************************)
YumIndex == CHOOSE i \in 1..Len(Program) : Program[i].op = "yum_check"

\* the test calls before position i that reach the template
ExecutedBefore ==
    [i \in 1..(Len(Program) + 1) |->
        Cardinality({j \in 1..(i - 1) : Program[j].op = "test" /\ ~Skips(Program[j])})]

Verdicts == num_tests_passed + num_tests_failed

\* the run went through every suite of cmd_openssl, cleanup_test_env included
ReachedEnd == argv = "openssl" /\ ip > Len(Program)

HasCall(role, input, artifact, ok) ==
    \E i \in 1..Len(calls) :
        /\ calls[i].role = role
        /\ calls[i].input = input
        /\ calls[i].artifact = artifact
        /\ (calls[i].rc = 0) = ok

\* a call whose status lets the && list of the template go on
StepOk(c) ==
    IF c.role = "diff" \/ (c.input = "input_corrupted" /\ c.role # "bitflip")
    THEN c.rc # 0
    ELSE c.rc = 0

CaseRecorded == step = "done" /\ cur.op = "test"

\* C1: a run of the openssl test set that reaches the end of all suites prints
\* the summary and exits with status 2 when a case failed and 0 when none did.
C1_ExitStatusReflectsFailures ==
    (pc = "exited" /\ ReachedEnd) =>
        /\ summaryPrinted
        /\ exitStatus = IF num_tests_failed > 0 THEN EXIT_CODE_FAILED_TESTS ELSE 0

\* C2: a malformed invocation (no argument, unknown command, unrecognised option
\* of the openssl subcommand) exits with status 1 and runs no test case.
C2_MalformedExitsInvalidParams ==
    (pc = "exited" /\ argv \in {"none", "unknown", "openssl_badopt"}) =>
        /\ exitStatus = EXIT_CODE_INVALID_PARAMS
        /\ Verdicts = 0
        /\ cur = NoItem

\* C3: a case is recorded as passed exactly when input generation succeeded, the
\* corrupted copy (size > 0) was produced and differs, both generators and the
\* comparator succeeded, both cross-verifications accepted and (size > 0) both
\* checkers failed on the corrupted input; otherwise it is recorded as failed.
C3_PassedIffAllStepsHold ==
    CaseRecorded =>
        /\ result \in {"PASSED", "FAILED"}
        /\ (result = "PASSED") <=>
             /\ HasCall("prng_inputfile", "input", NoStr, TRUE)
             /\ (cur.fsize > 0) =>
                  /\ HasCall("bitflip", "input", "input_corrupted", TRUE)
                  /\ HasCall("diff", "input", "input_corrupted", FALSE)
                  /\ corruptDiff # {}
             /\ HasCall("generator_pkcs", "input", "pkcsout", TRUE)
             /\ HasCall("generator_ref", "input", "refout", TRUE)
             /\ HasCall("custom_check", "pkcsout", "refout", TRUE)
             /\ HasCall("checker_ref", "input", "pkcsout", TRUE)
             /\ HasCall("checker_pkcs", "input", "refout", TRUE)
             /\ (cur.fsize > 0) =>
                  /\ HasCall("checker_ref", "input_corrupted", "pkcsout", FALSE)
                  /\ HasCall("checker_pkcs", "input_corrupted", "refout", FALSE)

C3_Witness ==
    /\ CaseRecorded
    /\ result = "PASSED"
    /\ cur.fsize > 0
    /\ num_tests_failed > 0

\* C4: within a case no step is invoked after a step that returned failure, and
\* a case with a failed step is recorded as failed.
C4_FailureShortCircuits ==
    /\ \A i \in 1..(Len(calls) - 1) : StepOk(calls[i])
    /\ (calls # <<>> /\ ~StepOk(calls[Len(calls)])) => step \in {"log", "done"}
    /\ (CaseRecorded /\ \E i \in 1..Len(calls) : ~StepOk(calls[i])) => result = "FAILED"

C4_Witness ==
    /\ CaseRecorded
    /\ result = "FAILED"
    /\ cur.fsize > 0
    /\ Len(calls) = 4
    /\ calls[4].role = "generator_pkcs"
    /\ calls[4].rc # 0

\* C5: a failed case does not halt the suite: the number of cases run before each
\* position of the matrix is the same whatever the verdicts, and a run that gets
\* past the matrix has run all of its cases.
C5_FailedCaseDoesNotHaltSuite ==
    /\ (pc \in {"run", "case"} /\ ip <= YumIndex) => Verdicts = ExecutedBefore[ip]
    /\ (pc = "summary" \/ (pc = "run" /\ ip > YumIndex)) =>
          Verdicts >= ExecutedBefore[YumIndex]

C5_Witness ==
    /\ pc = "case"
    /\ num_tests_failed = 1
    /\ num_tests_passed = 0
    /\ ip = 3

\* C6: a case of payload size 0 never runs the corruption step nor a checker on
\* the corrupted input; a passed case of size > 0 ran both negative-path checks.
C6_NegativePathOnlyWithPayload ==
    /\ (cur.op = "test" /\ cur.fsize = 0) =>
          \A i \in 1..Len(calls) :
              /\ calls[i].role \notin {"bitflip", "diff"}
              /\ calls[i].input # "input_corrupted"
              /\ calls[i].artifact # "input_corrupted"
    /\ (CaseRecorded /\ cur.fsize > 0 /\ result = "PASSED") =>
          /\ \E i \in 1..Len(calls) :
                 /\ calls[i].role = "checker_ref"
                 /\ calls[i].input = "input_corrupted"
                 /\ calls[i].artifact = "pkcsout"
          /\ \E i \in 1..Len(calls) :
                 /\ calls[i].role = "checker_pkcs"
                 /\ calls[i].input = "input_corrupted"
                 /\ calls[i].artifact = "refout"

C6_Witness ==
    /\ CaseRecorded
    /\ cur.fsize = 0
    /\ result = "PASSED"
    /\ Len(calls) = 6

\* C7: for size > 0 the flipped bit index lies in [0, 8*size), and a case gets
\* past the corruption step only with a corrupted copy that differs from the
\* input in exactly one bit.
C7_CorruptedDiffersInOneBit ==
    /\ (cur.op = "test" /\ bit # NoArg) => bit \in 0..(8 * cur.fsize - 1)
    /\ (cur.op = "test" /\ cur.fsize > 0
          /\ step \in {"generator_pkcs", "generator_ref", "custom_check", "checker_ref",
                       "checker_pkcs", "neg_checker_ref", "neg_checker_pkcs"}) =>
          /\ Cardinality(corruptDiff) = 1
          /\ corruptDiff \subseteq 0..(8 * cur.fsize - 1)
    /\ (\E i \in 1..Len(calls) :
            calls[i].input = "input_corrupted" /\ calls[i].role \in {"checker_ref", "checker_pkcs"}) =>
          Cardinality(corruptDiff) = 1

C7_Witness ==
    /\ pc = "case"
    /\ step = "neg_checker_pkcs"
    /\ cur.fsize = 32
    /\ corruptDiff = {255}

\* C8: at most one key is provisioned on the token at any time: between two
\* init-token calls there is a release-token call, also when a label is
\* provisioned a second time.
C8_AtMostOneKeyOnToken ==
    /\ initsSinceRelease <= 1
    /\ Cardinality(tokenKeys) <= 1

C8_Witness ==
    /\ pc = "case"
    /\ cur.fn = "test_openssl_encryptdecrypt_rsa"
    /\ cur.key = "rsa1024"
    /\ tokenKeys = {"rsa1024"}
    /\ initsSinceRelease = 1

\* C9: once a key is provisioned, release-token is eventually called, whatever
\* the verdicts of the cases of its sub-suite.
C9_ProvisionedKeyEventuallyReleased ==
    (initsSinceRelease = 1) ~> (initsSinceRelease = 0)

C9_Witness ==
    /\ pc = "run"
    /\ ip > 1
    /\ Program[ip - 1].op = "cleanup_key"
    /\ initsSinceRelease = 0
    /\ tokenKeys = {}
    /\ num_tests_failed > 0

\* C10 as stated: while a key's sub-suite runs, no key database of another key
\* exists under the key database directory.
C10_NoArtifactOfEarlierKey ==
    pc = "case" => dbFiles \subseteq {cur.key}

\* C10, amended: cleanup_key releases the token only; the database of the key
\* under test exists during its cases, no database is removed before
\* cleanup_test_env, which removes them all.
C10_ArtifactsKeptUntilCleanupTestEnv ==
    /\ [](pc = "case" => cur.key \in dbFiles)
    /\ [][IF pc = "run" /\ pc' = "summary" THEN dbFiles' = {}
          ELSE dbFiles \subseteq dbFiles']_vars

C10_Witness ==
    /\ pc = "case"
    /\ cur.key = "rsa2048"
    /\ "rsa1024" \in dbFiles
    /\ tokenKeys = {"rsa2048"}

\* output length of a digest, in bytes
DigestBytes(d) ==
    CASE d = "sha1" -> 20 [] d = "sha224" -> 28 [] d = "sha256" -> 32
      [] d = "sha384" -> 48 [] d = "sha512" -> 64

\* modulus length of an RSA key, in bytes, from the bit length in its label
ModulusBytes(key) ==
    CASE key = "rsa1024" -> 1024 \div 8 [] key = "rsa2048" -> 2048 \div 8
      [] key = "rsa4096" -> 4096 \div 8

\* digest and salt fit the encoded message of the key
PssFits(item) == DigestBytes(item.digest) + item.slen + 2 <= ModulusBytes(item.key)

\* cur went, or is going, through the template
CurExecuted == cur.op = "test" /\ (pc = "case" \/ step = "done")

\* cur returned from its test function without reaching the template
CurSkipped == cur.op = "test" /\ pc # "case" /\ step = "idle"

\* C11: an environment failure (mkdir, enclave start, pack-key, init-token)
\* aborts the run, and the abort comes before any test case has executed.
C11_EnvFailureAbortsBeforeAnyCase ==
    /\ (pc \in {"run", "case"} /\ initsSinceRelease = 1) => tokenKeys # {}
    /\ (argv = "openssl" /\ pc \in {"tee", "exited"} /\ ~summaryPrinted) =>
          /\ Verdicts = 0
          /\ cur = NoItem

\* C12: no RSA-PSS case runs with digest bytes + salt bytes + 2 above the modulus
\* bytes; RSA-1024 with SHA-512 and a 64-byte salt never runs, for any size.
C12_NoPssCaseBeyondCapacity ==
    (CurExecuted /\ cur.fn = "test_openssl_digestsignverify_rsapss") =>
        /\ PssFits(cur)
        /\ ~(cur.key = "rsa1024" /\ cur.digest = "sha512" /\ cur.slen = 64)

C12_Witness ==
    /\ CurSkipped
    /\ cur = Item("test", "test_openssl_digestsignverify_rsapss", 16000, "rsa1024", 64, "sha512")
    /\ calls = <<>>
    /\ Verdicts = ExecutedBefore[ip]

\* C13: the RSA-PSS skip rule skips exactly the combinations beyond the capacity
\* of the modulus: a combination is skipped if and only if it does not fit.
C13_PssSkipExactlyBeyondCapacity ==
    /\ (CurSkipped /\ cur.fn = "test_openssl_digestsignverify_rsapss") => ~PssFits(cur)
    /\ (CurExecuted /\ cur.fn = "test_openssl_digestsignverify_rsapss") => PssFits(cur)

\* C14: an RSA PKCS#1 v1.5 encrypt/decrypt case runs if and only if its payload
\* size is at most modulus bytes - 11; only RSA-1024 with 128 bytes is skipped.
C14_EncSkipExactlyBeyondCapacity ==
    /\ (CurExecuted /\ cur.fn = "test_openssl_encryptdecrypt_rsa") =>
          cur.fsize <= ModulusBytes(cur.key) - 11
    /\ (CurSkipped /\ cur.fn = "test_openssl_encryptdecrypt_rsa") =>
          /\ cur.fsize > ModulusBytes(cur.key) - 11
          /\ cur.key = "rsa1024"
          /\ cur.fsize = 128

C14_Witness ==
    /\ CurSkipped
    /\ cur.fn = "test_openssl_encryptdecrypt_rsa"
    /\ cur.key = "rsa1024"
    /\ cur.fsize = 128
    /\ Program[ip].fn = "test_openssl_encryptdecrypt_rsa_x509"

RawFns == {"test_openssl_signverify_rsa_x509", "test_openssl_encryptdecrypt_rsa_x509"}

\* C15: every raw/X.509 sign and encrypt case runs with a payload of exactly the
\* modulus byte length of its key, and each RSA key gets one case of each family.
C15_RawPayloadIsModulusLength ==
    /\ (CurExecuted /\ cur.fn \in RawFns) => cur.fsize = ModulusBytes(cur.key)
    /\ (pc = "run" /\ ip = YumIndex) =>
          \A i \in 1..Len(RSA_KEYS) : \A fn \in RawFns :
              Cardinality({j \in 1..(ip - 1) :
                              /\ Program[j].op = "test"
                              /\ Program[j].fn = fn
                              /\ Program[j].key = RSA_KEYS[i]
                              /\ ~Skips(Program[j])}) = 1

C15_Witness ==
    /\ CaseRecorded
    /\ cur.fn = "test_openssl_encryptdecrypt_rsa_x509"
    /\ cur.key = "rsa4096"
    /\ cur.fsize = 512
    /\ inputfile.len = 512

\* the comparator of cur did not reject the two artifacts
ComparatorAccepts == \A i \in 1..Len(calls) : calls[i].role = "custom_check" => calls[i].rc = 0

NoCheckerCalled == \A i \in 1..Len(calls) : calls[i].role \notin {"checker_ref", "checker_pkcs"}

\* both artifacts were written and Reference's differs from Subject's
ArtifactsDiffer == ref_out # 0 /\ ref_out # PkcsOut

CrossChecksAccepted ==
    /\ HasCall("checker_ref", "input", "pkcsout", TRUE)
    /\ HasCall("checker_pkcs", "input", "refout", TRUE)

NegativeChecksRejected ==
    /\ HasCall("checker_ref", "input_corrupted", "pkcsout", FALSE)
    /\ HasCall("checker_pkcs", "input_corrupted", "refout", FALSE)

\* C16: for size >= 1 the raw/X.509 input generator writes exactly size bytes:
\* the byte 0x41 followed by size-1 pseudo-random bytes, so the payload is below
\* every modulus of the same length whose top bit is set.
C16_RawInputHasFixedLeadingByte ==
    (/\ cur.op = "test"
     /\ FctOf(cur.fn).prng_inputfile = "create_test_random_file_rsax509"
     /\ HasCall("prng_inputfile", "input", NoStr, TRUE)) =>
        /\ inputfile.len = cur.fsize
        /\ inputfile.first = 65
        /\ inputfile.rand = cur.fsize - 1
        /\ inputfile.first > 0
        /\ inputfile.first < 128
        /\ inputfile.len = ModulusBytes(cur.key)

C16_Witness ==
    /\ pc = "case"
    /\ step = "corrupt"
    /\ cur.fn = "test_openssl_signverify_rsa_x509"
    /\ cur.key = "rsa2048"
    /\ inputfile = [len |-> 256, first |-> 65, rand |-> 255]

DeterministicFns == {"test_openssl_digestsignverify_rsa", "test_openssl_signverify_rsa_x509"}

\* C17: a PKCS#1v1.5 digest-sign or raw/X.509 sign case whose two signatures
\* differ fails at the comparator, before any verification; it passes only with
\* byte-identical signatures.
C17_DeterministicSignaturesMustBeEqual ==
    /\ (cur.op = "test" /\ cur.fn \in DeterministicFns /\ ArtifactsDiffer) =>
          /\ NoCheckerCalled
          /\ pc = "case" => step \in {"custom_check", "log"}
          /\ CaseRecorded => result = "FAILED"
    /\ (CaseRecorded /\ cur.fn \in DeterministicFns /\ result = "PASSED") =>
          ref_out = PkcsOut

C17_Witness ==
    /\ CaseRecorded
    /\ cur.fn = "test_openssl_signverify_rsa_x509"
    /\ ArtifactsDiffer
    /\ result = "FAILED"
    /\ calls[Len(calls)].role = "custom_check"
    /\ calls[Len(calls)].rc # 0

RandomizedCase(item) ==
    \/ item.fn = "test_openssl_signverify_ecdsa"
    \/ item.fn = "test_openssl_digestsignverify_rsapss" /\ item.slen # 0

\* C18: for ECDSA and RSA-PSS with a non-zero salt the comparator never fails the
\* case, whether or not the artifacts are equal, and a passed case still had both
\* cross-verifications accepted and (size > 0) both negative checks rejected.
C18_RandomizedVerdictIgnoresEquality ==
    (cur.op = "test" /\ RandomizedCase(cur)) =>
        /\ ComparatorAccepts
        /\ (CaseRecorded /\ result = "PASSED") =>
              /\ CrossChecksAccepted
              /\ cur.fsize > 0 => NegativeChecksRejected
        /\ (CaseRecorded /\ CrossChecksAccepted /\ (cur.fsize > 0 => NegativeChecksRejected)) =>
              result = "PASSED"

C18_Witness ==
    /\ CaseRecorded
    /\ cur.fn = "test_openssl_digestsignverify_rsapss"
    /\ cur.slen = 48
    /\ cur.fsize = 256
    /\ ArtifactsDiffer
    /\ result = "PASSED"

EncFns == {"test_openssl_encryptdecrypt_rsa", "test_openssl_encryptdecrypt_rsa_x509"}

\* C19 as stated: in every encrypt/decrypt case, PKCS#1 v1.5 or raw/X.509, two
\* differing ciphertexts are not rejected by the comparator.
C19_CiphertextEqualityNeverRequired ==
    (cur.op = "test" /\ cur.fn \in EncFns /\ ArtifactsDiffer) => ComparatorAccepts

\* C19, amended: PKCS#1 v1.5 encrypt/decrypt cases do not require equal
\* ciphertexts and pass when both decryptions reproduce the input; raw/X.509
\* encrypt cases use check_outfiles_diff and fail on differing ciphertexts.
C19_EqualityRequiredOnlyForRawEncryption ==
    /\ (cur.op = "test" /\ cur.fn = "test_openssl_encryptdecrypt_rsa") =>
          /\ ComparatorAccepts
          /\ (CaseRecorded /\ CrossChecksAccepted /\ NegativeChecksRejected) =>
                result = "PASSED"
    /\ (cur.op = "test" /\ cur.fn = "test_openssl_encryptdecrypt_rsa_x509" /\ ArtifactsDiffer) =>
          /\ NoCheckerCalled
          /\ CaseRecorded => result = "FAILED"

C19_Witness ==
    /\ CaseRecorded
    /\ cur.fn = "test_openssl_encryptdecrypt_rsa"
    /\ ArtifactsDiffer
    /\ CrossChecksAccepted
    /\ result = "PASSED"

\* C20 as stated: a passed encrypt/decrypt case decrypted each party's ciphertext
\* with each party's decrypt operation (four pairings).
C20_AllFourPairingsChecked ==
    (CaseRecorded /\ cur.fn \in EncFns /\ result = "PASSED") =>
        /\ HasCall("checker_pkcs", "input", "pkcsout", TRUE)
        /\ HasCall("checker_ref", "input", "pkcsout", TRUE)
        /\ HasCall("checker_pkcs", "input", "refout", TRUE)
        /\ HasCall("checker_ref", "input", "refout", TRUE)

\* C20, amended: a passed encrypt/decrypt case checked the two cross pairings
\* (Subject's ciphertext with Reference's decrypt, Reference's ciphertext with
\* Subject's decrypt); no decrypt is ever applied to its own party's ciphertext.
C20_OnlyCrossPairingsChecked ==
    (cur.op = "test" /\ cur.fn \in EncFns) =>
        /\ (CaseRecorded /\ result = "PASSED") => CrossChecksAccepted
        /\ \A i \in 1..Len(calls) :
              /\ calls[i].role = "checker_pkcs" => calls[i].artifact = "refout"
              /\ calls[i].role = "checker_ref" => calls[i].artifact = "pkcsout"

C20_Witness ==
    /\ CaseRecorded
    /\ cur.fn = "test_openssl_encryptdecrypt_rsa"
    /\ cur.key = "rsa2048"
    /\ cur.fsize = 64
    /\ result = "PASSED"
    /\ Len(calls) = 10

IndexOf(seq, x) == CHOOSE i \in 1..Len(seq) : seq[i] = x

IndexOrZero(seq, x) == IF \E i \in 1..Len(seq) : seq[i] = x THEN IndexOf(seq, x) ELSE 0

\* position of a combination in the order the suites are listed in: suite, key,
\* group of the sub-suite, payload size, digest, salt length
Rank(item) ==
    LET suite == CASE item.fn \in {"test_openssl_digestsignverify_rsapss",
                                   "test_openssl_digestsignverify_rsa",
                                   "test_openssl_signverify_rsa_x509"} -> 0
                   [] item.fn = "test_openssl_signverify_ecdsa" -> 1
                   [] OTHER -> 2
        keyIdx == IF suite = 1 THEN IndexOf(ECDSA_KEYS, item.key)
                  ELSE IndexOf(RSA_KEYS, item.key)
        group == CASE item.fn = "test_openssl_digestsignverify_rsapss" -> 0
                   [] item.fn = "test_openssl_digestsignverify_rsa" -> 1
                   [] item.fn = "test_openssl_signverify_rsa_x509" -> 2
                   [] item.fn = "test_openssl_signverify_ecdsa" -> 0
                   [] item.fn = "test_openssl_encryptdecrypt_rsa" -> 0
                   [] item.fn = "test_openssl_encryptdecrypt_rsa_x509" -> 1
        sizeIdx == CASE item.fn \in RawFns -> 0
                     [] item.fn = "test_openssl_signverify_ecdsa" ->
                          IndexOf(TEST_ECDSA_FILE_SIZES, item.fsize)
                     [] item.fn = "test_openssl_encryptdecrypt_rsa" ->
                          IndexOf(TEST_SMALL_FILE_SIZES, item.fsize)
                     [] OTHER -> IndexOf(TEST_LARGE_FILE_SIZES, item.fsize)
    IN  ((((suite * 4 + keyIdx) * 4 + group) * 10 + sizeIdx) * 10
            + IndexOrZero(TEST_DIGESTS, item.digest)) * 10
            + IndexOrZero(TEST_RSAPSS_SALT_SIZES, item.slen)

Range(seq) == {seq[i] : i \in 1..Len(seq)}

\* the combinations of the matrix, skipped ones included
Matrix ==
    {Item("test", "test_openssl_digestsignverify_rsapss", sz, k, sl, d) :
        sz \in Range(TEST_LARGE_FILE_SIZES), k \in Range(RSA_KEYS),
        sl \in Range(TEST_RSAPSS_SALT_SIZES), d \in Range(TEST_DIGESTS)}
    \cup {Item("test", "test_openssl_digestsignverify_rsa", sz, k, NoArg, d) :
        sz \in Range(TEST_LARGE_FILE_SIZES), k \in Range(RSA_KEYS),
        d \in Range(TEST_DIGESTS)}
    \cup {Item("test", fn, ModulusBytes(k), k, NoArg, NoStr) :
        fn \in RawFns, k \in Range(RSA_KEYS)}
    \cup {Item("test", "test_openssl_signverify_ecdsa", sz, k, NoArg, NoStr) :
        sz \in Range(TEST_ECDSA_FILE_SIZES), k \in Range(ECDSA_KEYS)}
    \cup {Item("test", "test_openssl_encryptdecrypt_rsa", sz, k, NoArg, NoStr) :
        sz \in Range(TEST_SMALL_FILE_SIZES), k \in Range(RSA_KEYS)}

MatrixRanks == {Rank(m) : m \in Matrix}

\* C21: sub-suites run in key-list order (RSA sign, ECDSA, RSA encrypt), the token
\* is released before the next key is provisioned, and the cases of a sub-suite
\* run in enumeration order (RSA-PSS: size, then digest, then salt; then
\* PKCS#1 v1.5; then raw).
C21_SuitesAndCasesRunInListOrder ==
    /\ AtItem("test") =>
          /\ Program[ip] \in Matrix
          /\ initsSinceRelease = 1
          /\ tokenKeys \subseteq {Program[ip].key}
          /\ LET last == IF cur.op = "test" THEN Rank(cur) ELSE -1
                 next == Rank(Program[ip])
             IN  /\ last < next
                 /\ ~\E r \in MatrixRanks : last < r /\ r < next
    /\ pc = "case" => cur = Program[ip]
    /\ (AtItem("provision_key") \/ AtItem("provision_key_w_cert")) =>
          (initsSinceRelease = 0 /\ tokenKeys = {})

C21_Witness ==
    /\ pc = "case"
    /\ cur = Item("test", "test_openssl_signverify_ecdsa", 1, "secp384r1", NoArg, NoStr)
    /\ "secp384r1" \in tokenKeys
    /\ dbFiles = {"rsa1024", "rsa2048", "rsa4096", "secp384r1"}
    /\ Verdicts = 693

\* C22: both counters start at 0; recording a verdict increments exactly one of
\* them by one and leaves the other; no other step, a skipped combination
\* included, changes either counter; neither counter ever decreases.
C22_CountersMoveOnlyByOnePerVerdict ==
    /\ [](pc \in {"main", "block", "cmd", "prepare"} =>
            (num_tests_passed = 0 /\ num_tests_failed = 0))
    /\ [][IF AtStep("log") \/ AtItem("x509_export")
          THEN \/ /\ num_tests_passed' = num_tests_passed + 1
                  /\ num_tests_failed' = num_tests_failed
               \/ /\ num_tests_failed' = num_tests_failed + 1
                  /\ num_tests_passed' = num_tests_passed
          ELSE /\ num_tests_passed' = num_tests_passed
               /\ num_tests_failed' = num_tests_failed]_vars

C22_Witness ==
    /\ CurSkipped
    /\ cur.fn = "test_openssl_encryptdecrypt_rsa"
    /\ num_tests_failed = 2
    /\ num_tests_passed = ExecutedBefore[ip] - 2

EcdsaStart == CHOOSE i \in 1..Len(Program) :
    Program[i].op = "provision_key" /\ Program[i].key = ECDSA_KEYS[1]

EncStart == CHOOSE i \in 1..Len(Program) :
    Program[i].op = "provision_key" /\ Program[i].key = RSA_KEYS[1] /\ i > EcdsaStart

\* C23: a run that completes the cryptographic suites has recorded exactly 693
\* verdicts after the RSA sign suites, 21 more after ECDSA and 26 more after the
\* RSA encrypt suites, 740 in all, whatever the verdicts are.
C23_ExactlyOneVerdictPerCombination ==
    /\ (pc = "run" /\ ip = EcdsaStart) => Verdicts = 693
    /\ (pc = "run" /\ ip = EncStart) => Verdicts = 693 + 21
    /\ (pc = "run" /\ ip = YumIndex) => Verdicts = 693 + 21 + 26
    /\ (pc = "run" /\ ip = YumIndex) => Verdicts = 740

C23_Witness ==
    /\ pc = "run"
    /\ ip = YumIndex
    /\ num_tests_failed = 2
    /\ num_tests_passed = 738

\* C24: for RSA-PSS with salt length 0 the comparator succeeds whatever
\* Reference's signature is: its status is the one it would have for any other
\* content of Reference's artifact.
C24_PssSaltZeroComparatorIgnoresReference ==
    (cur.op = "test" /\ cur.fn = "test_openssl_digestsignverify_rsapss" /\ cur.slen = 0) =>
        \A i \in 1..Len(calls) :
            calls[i].role = "custom_check" =>
                /\ calls[i].rc = 0
                /\ \A other \in {1, 2} :
                       calls[i].rc = CustomCheck(FctOf(cur.fn).custom_check, PkcsOut,
                                                 other, cur.slen)

C24_Witness ==
    /\ CaseRecorded
    /\ cur.fn = "test_openssl_digestsignverify_rsapss"
    /\ cur.slen = 0
    /\ cur.fsize = 0
    /\ ArtifactsDiffer
    /\ HasCall("custom_check", "pkcsout", "refout", TRUE)
    /\ result = "PASSED"

Checkers == {"checker_ref", "checker_pkcs"}

\* a checker of cur accepted an artifact against the corrupted input
NegativePathViolated ==
    \E i \in 1..Len(calls) :
        calls[i].role \in Checkers /\ calls[i].input = "input_corrupted" /\ calls[i].rc = 0

\* an operation of cur returned non-zero where success was expected
OperationFailed ==
    \E i \in 1..Len(calls) :
        /\ calls[i].role \in Checkers \cup {"prng_inputfile", "bitflip", "generator_pkcs",
                                              "generator_ref"}
        /\ calls[i].input # "input_corrupted"
        /\ calls[i].rc # 0

ComparatorMismatch ==
    \E i \in 1..Len(calls) : calls[i].role = "custom_check" /\ calls[i].rc # 0

\* C25 as stated: a case that fails on a negative-path violation is recorded in
\* a category other than the one of operation failures and comparator
\* mismatches, which are recorded as FAILED.
C25_NegativeViolationHasOwnCategory ==
    (CaseRecorded /\ NegativePathViolated) => result # "FAILED"

\* C25, amended: there is one failure category: a negative-path violation is
\* recorded as FAILED from the status 1 of `(! checker)`, like an operation
\* failure and a comparator mismatch, and counted in the same counter.
C25_AllFailuresShareOneCategory ==
    /\ result \in {"none", "PASSED", "FAILED"}
    /\ (CaseRecorded /\ NegativePathViolated) =>
          /\ result = "FAILED"
          /\ exitcode = 1
          /\ num_tests_failed > 0
    /\ (CaseRecorded /\ (OperationFailed \/ ComparatorMismatch)) =>
          /\ result = "FAILED"
          /\ num_tests_failed > 0

C25_Witness ==
    /\ CaseRecorded
    /\ NegativePathViolated
    /\ ~OperationFailed
    /\ result = "FAILED"
    /\ calls[Len(calls)].role = "checker_pkcs"
    /\ calls[Len(calls)].rc = 0

\* the steps of a case, in order: <<role, input, artifact>>
ExpectedSteps(item) ==
    <<<<"prng_inputfile", "input", NoStr>>>>
    \o (IF item.fsize > 0
        THEN <<<<"bitflip", "input", "input_corrupted">>,
               <<"diff", "input", "input_corrupted">>>>
        ELSE <<>>)
    \o <<<<"generator_pkcs", "input", "pkcsout">>,
          <<"generator_ref", "input", "refout">>,
          <<"custom_check", "pkcsout", "refout">>,
          <<"checker_ref", "input", "pkcsout">>,
          <<"checker_pkcs", "input", "refout">>>>
    \o (IF item.fsize > 0
        THEN <<<<"checker_ref", "input_corrupted", "pkcsout">>,
               <<"checker_pkcs", "input_corrupted", "refout">>>>
        ELSE <<>>)

\* C26: the steps of a case occur in the order input generation, corruption
\* (size > 0), Subject generate, Reference generate, comparator, Reference check
\* of Subject's artifact, Subject check of Reference's artifact, then the same
\* two checks against the corrupted input; a checker never gets its own
\* party's artifact.
C26_StepsInTemplateOrder ==
    cur.op = "test" =>
        /\ Len(calls) <= Len(ExpectedSteps(cur))
        /\ \A i \in 1..Len(calls) :
              <<calls[i].role, calls[i].input, calls[i].artifact>> = ExpectedSteps(cur)[i]
        /\ (CaseRecorded /\ result = "PASSED") => Len(calls) = Len(ExpectedSteps(cur))

C26_Witness ==
    /\ CaseRecorded
    /\ cur.fn = "test_openssl_signverify_ecdsa"
    /\ cur.fsize = 55
    /\ Len(calls) = 10
    /\ calls[10].role = "checker_pkcs"
    /\ calls[10].input = "input_corrupted"
    /\ result = "PASSED"

\* the last call of cur is a checker run against the corrupted input
EndsAtNegative(role) ==
    /\ calls # <<>>
    /\ calls[Len(calls)].role = role
    /\ calls[Len(calls)].input = "input_corrupted"

\* C27: in the negative-path step every non-zero status of a checker counts as
\* a rejection, whether or not the checker evaluated the corrupted input: a case
\* stops at Reference's negative check only on status 0, and after Subject's
\* negative check it is recorded as passed exactly on a non-zero status.
C27_AnyNonZeroCountsAsRejection ==
    /\ (cur.op = "test" /\ step \in {"log", "done"} /\ EndsAtNegative("checker_ref")) =>
          calls[Len(calls)].rc = 0
    /\ (CaseRecorded /\ EndsAtNegative("checker_pkcs")) =>
          (result = "PASSED" <=> calls[Len(calls)].rc # 0)
    /\ (cur.op = "test" /\ uneval) =>
          \E i \in 1..Len(calls) :
              calls[i].role \in Checkers /\ calls[i].input = "input_corrupted"
                 /\ calls[i].rc # 0

C27_Witness ==
    /\ CaseRecorded
    /\ cur.fn = "test_openssl_signverify_rsa_x509"
    /\ uneval
    /\ result = "PASSED"
    /\ num_tests_failed = 0

\* C28: every file written while a case runs (input, corrupted input, both
\* artifacts, verification and decryption outputs, case log) lies in the
\* results directory of that case; the scratch file of mktemp is not counted.
C28_FilesStayInCaseDirectory ==
    CurExecuted =>
        \A f \in FilesWritten(calls, cur) :
            f.dir # MktempDir => f.dir = create_test_dir(cur)

\* C29: the seed is chosen once, before the first case, and never changes; every
\* input generation and every bit selection of the run is handed that seed, so
\* the input file and the flipped bit of a case are fixed by the generator, the
\* payload size and the seed of the run.
C29_SeedChosenOnceAndNeverChanges ==
    /\ [](pc \in {"prepare", "run", "case", "summary"} => prng_seed # NoArg)
    /\ [][prng_seed # NoArg => prng_seed' = prng_seed]_vars
    /\ [](seedsUsed \subseteq {prng_seed} /\ Cardinality(seedsUsed) <= 1)
    /\ []((cur.op = "test" /\ HasCall("prng_inputfile", "input", NoStr, TRUE)) =>
            inputfile = InputGenerator(FctOf(cur.fn).prng_inputfile, cur.fsize,
                                       prng_seed, TRUE).file)
    /\ []((cur.op = "test" /\ bit # NoArg) =>
            bit = PrngInt(prng_seed, BitRange(cur.fsize)[1], BitRange(cur.fsize)[2]))

C29_Witness ==
    /\ pc = "case"
    /\ step = "generator_pkcs"
    /\ prng_seed = 1
    /\ seedsUsed = {1}
    /\ cur.fsize = 32
    /\ cur.key = "rsa2048"
    /\ bit = 255
    /\ Verdicts > 0

\* C30: the invalid-chain export test is recorded as passed exactly when the
\* export fails; the selfsigned, valid-chain and noroot-chain tests exactly when
\* it succeeds; each test calls the provisioning (pack-key, init-token) before
\* the export and release-token after its verdict is recorded.
C30_ExportTestsAndTheirToken ==
    /\ (cur.op = "x509_export" /\ step = "done") =>
          /\ Len(calls) = 1
          /\ result \in {"PASSED", "FAILED"}
          /\ cur.key = "invalid_chain" => (result = "PASSED" <=> calls[1].rc # 0)
          /\ cur.key \in {"selfsigned", "valid_chain", "noroot_chain"} =>
                (result = "PASSED" <=> calls[1].rc = 0)
    /\ AtItem("x509_export") =>
          /\ initsSinceRelease = 1
          /\ Program[ip].key \in dbFiles
          /\ tokenKeys \subseteq {Program[ip].key}
    /\ (AtItem("cleanup_key") /\ cur.op = "x509_export") =>
          /\ cur.key = Program[ip].key
          /\ step = "done"
          /\ initsSinceRelease = 1
    /\ (AtItem("provision_key_w_cert") \/ AtItem("cleanup_test_env")) =>
          (initsSinceRelease = 0 /\ tokenKeys = {})

C30_Witness ==
    /\ AtItem("cleanup_key")
    /\ cur.op = "x509_export"
    /\ cur.key = "invalid_chain"
    /\ calls[1].rc = 0
    /\ result = "FAILED"
    /\ tokenKeys = {"invalid_chain"}

====
